---- MODULE Spec2Model ----
(***************************************************************************)
(* Page walks and credential handling of the json_agent services:          *)
(*   TopdeskService  (src/json_agent/topdesk_service.py)                   *)
(*   ZenyaService    (src/json_agent/zenya_service.py)                     *)
(*   tool functions  (src/json_agent/root_agent.py)                        *)
(* The HTTP backends are the environment: every response is chosen         *)
(* nondeterministically when the request is issued.                        *)
(***************************************************************************)
EXTENDS Integers, Sequences, FiniteSets, TLC

(***************************************************************************)
(* Bounds of the model                                                     *)
(***************************************************************************)
MaxPages == 3        \* page requests of one walk that the model follows
MaxPageItems == 2    \* records a backend puts on one page
MaxLimit == 3        \* largest caller cap (limit / max_results)
MaxTicks == 2        \* steps of the clock that the model follows
MaxPathLen == 3      \* keys of a field path of the record normalizer

(***************************************************************************)
(* Values                                                                  *)
(***************************************************************************)
Records == {"a", "b"}              \* backend records (duplicates can occur)
Texts == {"e1", "e2"}              \* response bodies of failed requests
Tokens == {"k1", "k2"}             \* credentials the Topdesk login endpoint hands out
ZenyaTokens == {"z1"}              \* credentials the Zenya token endpoint hands out
PageSizes == {2, 1000, 5000}       \* page_size arguments of a caller
WalkStatuses == {200, 206, 500}    \* status codes a list endpoint answers
TokenStatuses == {200, 500}        \* status codes a token endpoint answers

\* Python's None / a present value, for optional arguments and fields
None == << >>
Some(x) == << x >>
Val(o) == o[1]

Min(a, b) == IF a <= b THEN a ELSE b
Max(a, b) == IF a >= b THEN a ELSE b

SeqsUpTo(S, n) == UNION { [1..k -> S] : k \in 0..n }

Limits == {None} \cup { Some(n) : n \in 0..MaxLimit }

\* Python's s[:n]
Slice(s, n) ==
    IF n >= 0 THEN SubSeq(s, 1, Min(n, Len(s)))
    ELSE SubSeq(s, 1, Max(0, Len(s) + n))

VARIABLES
    td_pc,        \* TopdeskService: "new", "failed", "idle", "walk", "returned", "raised"
    td_op,        \* the running method: "walk" load_modification_date,
                  \* "item" load_knowledge_item_by_identifier, "none"
    td_token,     \* self.token
    td_token_reqs,\* GET requests to the login endpoint since the process started
    td_lookup,    \* the request and response of the running single-item lookup
    td_headers,   \* headers of the running walk (the token they carry)
    td_header_calls, \* get_headers() calls of the running operation
    td_params,    \* params of the running walk
    td_base,      \* params as the caller built them when the walk was entered
    td_limit,     \* limit of the running walk
    td_items,     \* items of the running walk
    td_reqs,      \* GET requests the running walk has issued, in order
    td_resps,     \* what the backend answered to each of them
    td_served,    \* records the backend has sent on parsed 200/206 pages, in order
    td_out,       \* how _load_paginated_data ended: value returned or error raised
    td_tool,      \* what the tool function hands to its caller
    now,                  \* datetime.now(), in seconds
    zn_pc,                \* ZenyaService: "idle", "walk", "returned", "raised"
    zn_op,                \* the running method: "docs" collect_documents,
                          \* "search" collect_dedicated_search_results,
                          \* "download" download_document, "content" load_content,
                          \* "none"
    zn_token,             \* self.token
    zn_token_expiration,  \* self.token_expiration
    zn_acquired_at,       \* the instant of the last successful get_token(), None before it
    zn_max_results,       \* max_results of the running walk
    zn_documents,         \* documents / search_results of the running walk
    zn_offset,            \* offset of collect_documents
    zn_continuation,      \* current_continuation_token of collect_dedicated_search_results
    zn_reqs,              \* GET requests the running walk has issued, in order
    zn_resp,              \* what the backend answered to the last of them
    zn_page_counts,       \* collect_documents: the number of records on each page received
    zn_header_calls,      \* get_headers() calls of the running operation
    zn_token_posts,       \* POSTs to the token endpoint during the running operation
    zn_out,               \* how the service method ended
    zn_tool,              \* what the tool function hands to its caller
    tl_pc,        \* a call of a tool function or service method: "idle", "done"
    tl_tool,      \* the tool function called ("none": the service method is called directly)
    tl_args,      \* the arguments of the tool's caller
    tl_call,      \* the service method called, with its arguments
    tl_request,   \* the first data request the service method sends, if it sends one
    tl_below,     \* how the service method ended: value returned or error raised
    tl_result,    \* what the tool function hands to its caller
    cc_pc,        \* per concurrent caller of ZenyaService.get_headers(): "idle",
                  \* "post" (check passed), "store" (token answered), "done", "raised"
    cc_seen,      \* per caller: the expired credential its check saw, None otherwise
    cc_resp       \* per caller: the answer of its token request

td_vars == << td_pc, td_op, td_token, td_token_reqs, td_lookup, td_headers,
              td_header_calls, td_params, td_base,
              td_limit, td_items, td_reqs, td_resps, td_served, td_out, td_tool >>

zn_vars == << now, zn_pc, zn_op, zn_token, zn_token_expiration, zn_acquired_at,
              zn_max_results, zn_documents,
              zn_offset, zn_continuation, zn_reqs, zn_resp, zn_page_counts, zn_header_calls,
              zn_token_posts, zn_out, zn_tool >>

tl_vars == << tl_pc, tl_tool, tl_args, tl_call, tl_request, tl_below, tl_result >>

cc_vars == << cc_pc, cc_seen, cc_resp >>

vars == << td_vars, zn_vars, tl_vars, cc_vars >>

(***************************************************************************)
(* TopdeskService                                                          *)
(***************************************************************************)

\* a response of a list endpoint: a 200/206 answer whose body parses (an
\* object with or without "item", or a bare list), a 200/206 answer whose body
\* is no JSON, or a failure with its body text
TdResponses ==
    { [status |-> s, parses |-> TRUE, shape |-> sh, item |-> it, text |-> ""] :
        s \in WalkStatuses \cap {200, 206}, sh \in {"dict", "list"},
        it \in SeqsUpTo(Records, MaxPageItems) }
    \cup { [status |-> s, parses |-> TRUE, shape |-> "dict_noitem", item |-> << >>,
             text |-> ""] : s \in WalkStatuses \cap {200, 206} }
    \cup { [status |-> s, parses |-> FALSE, shape |-> "dict", item |-> << >>,
             text |-> ""] : s \in WalkStatuses \cap {200, 206} }
    \cup { [status |-> s, parses |-> FALSE, shape |-> "dict", item |-> << >>,
             text |-> t] : s \in WalkStatuses \ {200, 206}, t \in Texts }

NoOutcome == [kind |-> "none", value |-> << >>, error |-> None]
Returned(v) == [kind |-> "return", value |-> v, error |-> None]
Raised(what, status, text) ==
    [kind |-> "raise", value |-> << >>,
     error |-> Some([what |-> what, status |-> status, text |-> text])]

\* what the backend answered: status, whether the body parsed as JSON, how many
\* records the page held, and the body text of a failed request
Answer(status, parses, count, text) ==
    [status |-> status, parses |-> parses, count |-> count, text |-> text]

\* topdesk_service.py:100  data.get("item", []) if isinstance(data, dict) else data
NewItems(resp) ==
    IF resp.shape = "dict" THEN resp.item
    ELSE IF resp.shape = "dict_noitem" THEN << >>
    ELSE resp.item

\* variant of Extend: a record already in the accumulator is skipped
RECURSIVE ExtendDedup(_, _)
ExtendDedup(items, new_items) ==
    IF new_items = << >> THEN items
    ELSE IF \E i \in 1..Len(items) : items[i] = Head(new_items)
         THEN ExtendDedup(items, Tail(new_items))
         ELSE ExtendDedup(Append(items, Head(new_items)), Tail(new_items))

\* topdesk_service.py:104
Extend(items, new_items) == items \o new_items

\* variant of LimitReached: the walk stops only once the cap is exceeded
LimitReachedStrict(items, limit) == limit # None /\ Len(items) > Val(limit)

\* topdesk_service.py:106
LimitReached(items, limit) == limit # None /\ Len(items) >= Val(limit)

\* topdesk_service.py:107
Truncate(items, limit) == Slice(items, Val(limit))

\* variant of OnJSONDecodeError: the records collected so far are dropped
OnJSONDecodeErrorDrop(items) == Returned(<< >>)

\* topdesk_service.py:114-116, 120  except json.JSONDecodeError: break; return items
OnJSONDecodeError(items) == Returned(items)

\* variant of AdvanceStart: the next page's params are built anew from start
\* and page_size, without the caller's query and fields
AdvanceStartRebuild(params) ==
    [start |-> params.start + params.page_size, page_size |-> params.page_size,
     query |-> None, fields |-> None]

\* variant of AdvanceStart: start moves on by one record, not by one page
AdvanceStartByOne(params) ==
    [params EXCEPT !.start = params.start + 1]

\* topdesk_service.py:113
AdvanceStart(params) ==
    [params EXCEPT !.start = params.start + params.page_size]

\* variant of ToolResult: a raised failure becomes an empty record list
ToolResultSwallow(out) ==
    [kind |-> "records", records |-> out.value, error |-> None]

\* root_agent.py:105-112  get_recent_knowledge_items: try ... except Exception
ToolResult(out) ==
    IF out.kind = "raise"
    THEN [kind |-> "sentinel", records |-> << >>, error |-> out.error]
    ELSE [kind |-> "records", records |-> out.value, error |-> None]

NoTool == [kind |-> "none", records |-> << >>, error |-> None]

\* responses of the login endpoint: the body of a 200 answer is the token
TdTokenResponses ==
    { [status |-> 200, text |-> k] : k \in Tokens }
    \cup { [status |-> st, text |-> t] : st \in TokenStatuses \ {200}, t \in Texts }

\* variant of TdGetToken: a failed login is swallowed and leaves the service unauthenticated
TdGetTokenSwallow(response) ==
    IF response.status = 200
    THEN [token |-> Some(response.text), out |-> NoOutcome]
    ELSE [token |-> td_token, out |-> NoOutcome]

\* topdesk_service.py:33-56  get_token: the token stored and what is raised
TdGetToken(response) ==
    IF response.status = 200
    THEN [token |-> Some(response.text), out |-> NoOutcome]
    ELSE [token |-> td_token,
          out |-> Raised("Something went wrong while creating the token",
                         response.status, response.text)]

\* variant of TdConstruct: the constructor asks for no token
TdConstructLazy ==
    /\ td_pc = "new"
    /\ td_pc' = "idle"
    /\ UNCHANGED << td_op, td_token, td_token_reqs, td_lookup, td_headers,
                    td_header_calls, td_params, td_base,
                    td_limit, td_items, td_reqs, td_resps, td_served, td_out, td_tool >>
    /\ UNCHANGED << zn_vars, tl_vars, cc_vars >>

\* topdesk_service.py:13-31  __init__: self.token = None; self.get_token()
TdConstruct ==
    /\ td_pc = "new"
    /\ \E response \in TdTokenResponses :
         LET got == TdGetToken(response) IN
         /\ td_token' = got.token
         /\ td_out' = got.out
         /\ td_pc' = IF got.out.kind = "raise" THEN "failed" ELSE "idle"
    /\ td_token_reqs' = td_token_reqs + 1
    /\ UNCHANGED << td_op, td_lookup, td_headers, td_header_calls, td_params, td_base, td_limit,
                    td_items, td_reqs,
                    td_resps, td_served, td_tool >>
    /\ UNCHANGED << zn_vars, tl_vars, cc_vars >>

\* variant of TdGetHeaders: the Authorization header carries no token
TdGetHeadersNoToken == None

\* topdesk_service.py:58-71  get_headers: the token the Authorization header carries
TdGetHeaders == td_token

\* topdesk_service.py:173-179  load_modification_date builds params
LoadModificationDateParams(query, page_size) ==
    [start |-> 0, page_size |-> page_size, query |-> query,
     fields |-> Some("creationDate,modificationDate")]

\* topdesk_service.py:238-243  load_incidents builds params
LoadIncidentsParams(query, fields, page_size) ==
    [start |-> 0, page_size |-> page_size, query |-> query, fields |-> fields]

NoParams == [start |-> 0, page_size |-> 1000, query |-> None, fields |-> None]

\* the calls of the two walking methods: the defaults, a filtered call with
\* small pages, and a call with pages above 1000
WalkParams ==
    { LoadModificationDateParams(None, 1000),
      LoadModificationDateParams(Some("q"), 2),
      LoadIncidentsParams(None, None, 5000) }

\* variant of LoopEntry: a walk whose limit is zero returns before its first request
LoopEntryZeroCapReturns(limit) == IF limit = Some(0) THEN "returned" ELSE "walk"

\* topdesk_service.py:88  while True: the loop is entered whatever the limit is
LoopEntry(limit) == "walk"

\* topdesk_service.py:173-182, 238-250 and 85-86: a caller enters the walk
TdCall ==
    /\ td_pc = "idle"
    /\ \E lim \in Limits, params \in WalkParams :
         /\ params.page_size \in PageSizes
         /\ td_limit' = lim
         /\ td_params' = params
         /\ td_base' = params
    /\ td_items' = << >>
    /\ td_headers' = TdGetHeaders
    /\ td_header_calls' = 1
    /\ td_reqs' = << >>
    /\ td_resps' = << >>
    /\ td_served' = << >>
    /\ td_out' = NoOutcome
    /\ td_tool' = NoTool
    /\ td_pc' = LoopEntry(td_limit')
    /\ td_op' = "walk"
    /\ UNCHANGED << td_token, td_token_reqs, td_lookup >>
    /\ UNCHANGED << zn_vars, tl_vars, cc_vars >>

TdFinish(out) ==
    /\ td_out' = out
    /\ td_tool' = ToolResult(out)
    /\ td_pc' = IF out.kind = "raise" THEN "raised" ELSE "returned"

\* topdesk_service.py:88-120  one iteration of the while loop
TdPage ==
    /\ td_pc = "walk"
    /\ Len(td_reqs) < MaxPages
    /\ \E resp \in TdResponses :
         /\ td_reqs' = Append(td_reqs, [start |-> td_params.start,
                                        page_size |-> td_params.page_size,
                                        query |-> td_params.query,
                                        fields |-> td_params.fields,
                                        token |-> td_headers])
         /\ IF resp.status \in {200, 206}
            THEN IF resp.parses
                 THEN LET items == Extend(td_items, NewItems(resp)) IN
                      /\ td_resps' = Append(td_resps, Answer(resp.status, TRUE,
                                                              Len(NewItems(resp)), ""))
                      /\ td_served' = td_served \o NewItems(resp)
                      /\ td_items' = items
                      /\ IF LimitReached(items, td_limit)
                         THEN /\ TdFinish(Returned(Truncate(items, td_limit)))
                              /\ UNCHANGED td_params
                         ELSE IF resp.status = 200
                         THEN /\ TdFinish(Returned(items))
                              /\ UNCHANGED td_params
                         ELSE /\ td_params' = AdvanceStart(td_params)
                              /\ UNCHANGED << td_pc, td_out, td_tool >>
                 ELSE /\ td_resps' = Append(td_resps, Answer(resp.status, FALSE, 0, ""))
                      /\ TdFinish(OnJSONDecodeError(td_items))
                      /\ UNCHANGED << td_items, td_params, td_served >>
            ELSE /\ td_resps' = Append(td_resps, Answer(resp.status, FALSE, 0, resp.text))
                 /\ TdFinish(Raised("API request failed", resp.status, resp.text))
                 /\ UNCHANGED << td_items, td_params, td_served >>
    /\ UNCHANGED << td_op, td_token, td_token_reqs, td_lookup, td_headers,
                    td_header_calls, td_base, td_limit >>
    /\ UNCHANGED << zn_vars, tl_vars, cc_vars >>

\* responses of GET knowledgeItems/{identifier}: a 200 answer holds a JSON
\* object (possibly the empty one) or a body that is no JSON
EmptyItem == "{}"
LookupStatuses == {200, 400, 404, 500}
LookupResponses ==
    { [status |-> 200, parses |-> TRUE, item |-> it, text |-> ""] :
        it \in Records \cup {EmptyItem} }
    \cup { [status |-> 200, parses |-> FALSE, item |-> EmptyItem, text |-> ""] }
    \cup { [status |-> st, parses |-> FALSE, item |-> EmptyItem, text |-> t] :
            st \in LookupStatuses \ {200}, t \in Texts }

NoLookup == [token |-> None, status |-> 0, parses |-> FALSE, item |-> EmptyItem, text |-> ""]

\* variant of LoadKnowledgeItemByIdentifier: only 404 counts as not found
LoadKnowledgeItemByIdentifier404Only(response) ==
    IF response.status = 200
    THEN IF response.parses THEN Returned(Some(response.item))
         ELSE Raised("JSONDecodeError", 0, "")
    ELSE IF response.status = 404 THEN Returned(None)
    ELSE Raised("API request failed", response.status, response.text)

\* topdesk_service.py:208-221  load_knowledge_item_by_identifier after the request
LoadKnowledgeItemByIdentifier(response) ==
    IF response.status = 200
    THEN IF response.parses THEN Returned(Some(response.item))
         ELSE Raised("JSONDecodeError", 0, "")
    ELSE IF response.status = 404 THEN Returned(None)
    ELSE IF response.status = 400 THEN Returned(None)
    ELSE Raised("API request failed", response.status, response.text)

\* root_agent.py:60-67 get_knowledge_item_by_id, 144-154 get_knowledge_item_content:
\* try: item = ...; if item: return item; else: not found; except Exception
LookupToolResult(out) ==
    IF out.kind = "raise"
    THEN [kind |-> "sentinel", records |-> << >>, error |-> out.error]
    ELSE IF out.value # None /\ Val(out.value) # EmptyItem
    THEN [kind |-> "records", records |-> out.value, error |-> None]
    ELSE [kind |-> "not_found", records |-> << >>, error |-> None]

\* topdesk_service.py:200-221  load_knowledge_item_by_identifier, called by a
\* lookup tool: one request
TdLookup ==
    /\ td_pc = "idle"
    /\ \E response \in LookupResponses :
         LET out == LoadKnowledgeItemByIdentifier(response) IN
         /\ td_lookup' = [token |-> TdGetHeaders, status |-> response.status,
                          parses |-> response.parses, item |-> response.item,
                          text |-> response.text]
         /\ td_out' = out
         /\ td_tool' = LookupToolResult(out)
         /\ td_pc' = IF out.kind = "raise" THEN "raised" ELSE "returned"
    /\ td_op' = "item"
    /\ td_headers' = TdGetHeaders
    /\ td_header_calls' = 1
    /\ UNCHANGED << td_token, td_token_reqs, td_params, td_base, td_limit, td_items,
                    td_reqs,
                    td_resps, td_served >>
    /\ UNCHANGED << zn_vars, tl_vars, cc_vars >>

\* the caller has its result; the service is ready for the next call
TdDone ==
    /\ td_pc \in {"returned", "raised"}
    /\ td_pc' = "idle"
    /\ td_op' = "none"
    /\ td_lookup' = NoLookup
    /\ td_headers' = None
    /\ td_header_calls' = 0
    /\ td_params' = NoParams
    /\ td_base' = NoParams
    /\ td_limit' = None
    /\ td_items' = << >>
    /\ td_reqs' = << >>
    /\ td_resps' = << >>
    /\ td_served' = << >>
    /\ td_out' = NoOutcome
    /\ td_tool' = NoTool
    /\ UNCHANGED << td_token, td_token_reqs >>
    /\ UNCHANGED << zn_vars, tl_vars, cc_vars >>

TdInit ==
    /\ td_pc = "new"
    /\ td_op = "none"
    /\ td_token = None
    /\ td_token_reqs = 0
    /\ td_lookup = NoLookup
    /\ td_headers = None
    /\ td_header_calls = 0
    /\ td_params = NoParams
    /\ td_base = NoParams
    /\ td_limit = None
    /\ td_items = << >>
    /\ td_reqs = << >>
    /\ td_resps = << >>
    /\ td_served = << >>
    /\ td_out = NoOutcome
    /\ td_tool = NoTool

TdNext == TdConstruct \/ TdCall \/ TdPage \/ TdLookup \/ TdDone

(***************************************************************************)
(* ZenyaService                                                            *)
(***************************************************************************)

\* zenya_service.py:31  self.token_lifetime
TOKEN_LIFETIME == 60
\* zenya_service.py:143  limit = 50
PAGE_LIMIT == 50

\* JSON values of a search response
JNull == [t |-> "null", v |-> ""]
JStr(x) == [t |-> "str", v |-> x]

\* Python truthiness of a JSON null / string
Truthy(j) == j.t = "str" /\ j.v # ""

\* a key of a JSON object: absent, or present with a value
KeyAbsent == [present |-> FALSE, value |-> JNull]
KeyIs(j) == [present |-> TRUE, value |-> j]

\* dict.get(key, default)
DictGet(key, default) == IF key.present THEN key.value ELSE default

\* what a search response can hold under "continuationToken" and under
\* "nextContinuationToken"
ContinuationKeys == {KeyAbsent, KeyIs(JNull), KeyIs(JStr("")), KeyIs(JStr("t1"))}
NextContinuationKeys == {KeyAbsent, KeyIs(JNull), KeyIs(JStr("t2"))}

\* records of GET /portals/content_items and of GET /search; a page holds the
\* first n records of the feed
ContentFeed ==
    << [source_item_id |-> "d1", title |-> "T1",
        sub_type_field |-> [name |-> "procedure", value_id |-> "7"],
        last_modified_date_time |-> JStr("2024-01-01")],
       [source_item_id |-> "d2", title |-> "T2",
        sub_type_field |-> [name |-> "form", value_id |-> "9"],
        last_modified_date_time |-> JNull] >>
SearchFeed ==
    << [source_item_id |-> JStr("s1"), title |-> JStr("S1"), type |-> JStr("document")],
       [source_item_id |-> JStr("s2"), title |-> JStr("S2")] >>
PageOf(feed, n) == [i \in 1..n |-> feed[((i - 1) % Len(feed)) + 1]]

\* responses of the token endpoint, of content_items and of search
TokenResponses ==
    { [status |-> 200, token |-> k, text |-> ""] : k \in ZenyaTokens }
    \cup { [status |-> 500, token |-> "", text |-> t] : t \in Texts }
\* stands for the answer of a token request that is not made
NoTokenResponse == [status |-> 0, token |-> "", text |-> ""]
ContentResponses ==
    { [status |-> 200, data |-> PageOf(ContentFeed, n), text |-> ""] : n \in 0..MaxPageItems }
    \cup { [status |-> 500, data |-> << >>, text |-> t] : t \in Texts }
SearchResponses ==
    { [status |-> 200, items |-> PageOf(SearchFeed, n), continuationToken |-> c,
       nextContinuationToken |-> k, text |-> ""] :
        n \in 0..MaxPageItems, c \in ContinuationKeys, k \in NextContinuationKeys }
    \cup { [status |-> 500, items |-> << >>, continuationToken |-> KeyAbsent,
            nextContinuationToken |-> KeyAbsent, text |-> t] : t \in Texts }

\* variant of CheckTokenExpired: the token counts as alive at the expiration instant
CheckTokenExpiredLate(token, token_expiration, t) ==
    token = None \/ t > Val(token_expiration)

\* zenya_service.py:58-65  check_token_expired
CheckTokenExpired(token, token_expiration, t) ==
    token = None \/ t >= Val(token_expiration)

\* variant of GetHeadersAcquires: every call asks for a new token
GetHeadersAlwaysAcquires(token, token_expiration, t) == TRUE

\* zenya_service.py:79  get_headers: if self.check_token_expired(): self.get_token()
GetHeadersAcquires(token, token_expiration, t) ==
    CheckTokenExpired(token, token_expiration, t)

\* variant of HeadersPosts: only the first request of an operation checks the token
HeadersPostsFirstRequestOnly ==
    Len(zn_reqs) = 0 /\ GetHeadersAcquires(zn_token, zn_token_expiration, now)

\* zenya_service.py:67-87 with 33-56: get_headers, and get_token when it is called.
\* tr is the token endpoint's answer should a POST be made.
HeadersPosts == GetHeadersAcquires(zn_token, zn_token_expiration, now)
TokenAnswers == IF HeadersPosts THEN TokenResponses ELSE {NoTokenResponse}
HeadersFails(tr) == HeadersPosts /\ tr.status # 200
\* the answers to the data request that follows get_headers(): when
\* get_headers() raised no request is sent, and the one answer stands for none
DataAnswers(tr, responses) ==
    IF HeadersFails(tr) THEN {CHOOSE r \in responses : TRUE} ELSE responses

\* variant of GetHeaders: a failed token request stores its body as the token
\* and starts a new lifetime
GetHeadersStoresFailure(tr) ==
    /\ zn_header_calls' = zn_header_calls + 1
    /\ zn_token_posts' = IF HeadersPosts THEN zn_token_posts + 1 ELSE zn_token_posts
    /\ IF HeadersPosts
       THEN /\ zn_token' = Some(IF tr.status = 200 THEN tr.token ELSE tr.text)
            /\ zn_token_expiration' = Some(now + TOKEN_LIFETIME)
            /\ zn_acquired_at' = Some(now)
       ELSE UNCHANGED << zn_token, zn_token_expiration, zn_acquired_at >>

\* zenya_service.py:67-87  get_headers
GetHeaders(tr) ==
    /\ zn_header_calls' = zn_header_calls + 1
    /\ zn_token_posts' = IF HeadersPosts THEN zn_token_posts + 1 ELSE zn_token_posts
    /\ IF HeadersPosts /\ tr.status = 200
       THEN /\ zn_token' = Some(tr.token)
            /\ zn_token_expiration' = Some(now + TOKEN_LIFETIME)
            /\ zn_acquired_at' = Some(now)
       ELSE UNCHANGED << zn_token, zn_token_expiration, zn_acquired_at >>

\* zenya_service.py:156-162
Document(item) ==
    [source_item_id |-> item.source_item_id,
     title |-> item.title,
     doc_type |-> item.sub_type_field.name,
     doc_type_id |-> item.sub_type_field.value_id,
     last_modified_date_time |-> item.last_modified_date_time]

RECURSIVE Documents(_)
Documents(items) ==
    IF items = << >> THEN << >> ELSE << Document(Head(items)) >> \o Documents(Tail(items))

\* a JSON object as a value: v maps its keys to JSON values
JDict(f) == [t |-> "dict", v |-> f]

\* stands for an exception that leaves get_nested_value
JRaise(what) == [t |-> "raise", v |-> what]

\* variant of Descend: current[key] without the isinstance / membership test
RECURSIVE DescendUnchecked(_, _)
DescendUnchecked(current, path) ==
    IF path = << >> THEN current
    ELSE IF current.t = "raise" THEN current
    ELSE IF current.t # "dict" THEN JRaise("TypeError")
    ELSE IF Head(path) \notin DOMAIN current.v THEN JRaise("KeyError")
    ELSE DescendUnchecked(current.v[Head(path)], Tail(path))

\* zenya_service.py:293-300  the loop of get_nested_value: a key that is
\* missing, or a current value that is no dict, yields None
RECURSIVE Descend(_, _)
Descend(current, path) ==
    IF path = << >> THEN current
    ELSE IF current.t = "dict" /\ Head(path) \in DOMAIN current.v
         THEN Descend(current.v[Head(path)], Tail(path))
         ELSE JNull

\* zenya_service.py:282-300  get_nested_value(item, path); `not path` holds for
\* None and for the empty list
GetNestedValue(item, path) ==
    IF path = None THEN JNull ELSE Descend(JDict(item), path)

\* item.get(key)
ItemGet(item, key) == IF key \in DOMAIN item THEN item[key] ELSE JNull

\* variant of DefaultPaths: the type is read from the record's "type" key
DefaultPathsWithType ==
    [id_field |-> "source_item_id", title_field |-> "title", type_field_path |-> << "type" >>,
     doc_type_path |-> None, doc_type_id_path |-> None, modified_date_path |-> None]

\* zenya_service.py:258-263  the keyword defaults of collect_dedicated_search_results
DefaultPaths ==
    [id_field |-> "source_item_id", title_field |-> "title", type_field_path |-> None,
     doc_type_path |-> None, doc_type_id_path |-> None, modified_date_path |-> None]

\* zenya_service.py:320-328  processed_item
ProcessedItem(item, paths) ==
    [source_item_id |-> ItemGet(item, paths.id_field),
     title |-> ItemGet(item, paths.title_field),
     type |-> GetNestedValue(item, paths.type_field_path),
     doc_type |-> GetNestedValue(item, paths.doc_type_path),
     doc_type_id |-> GetNestedValue(item, paths.doc_type_id_path),
     last_modified_date_time |-> GetNestedValue(item, paths.modified_date_path),
     raw_item_details_for_debug |-> "Set logger to DEBUG"]

\* zenya_service.py:331  the cap test after each append
CapReached(results, max_results) ==
    max_results # None /\ Len(results) >= Val(max_results)

\* zenya_service.py:319-333  for item in items: append, stop at the cap
RECURSIVE AppendItems(_, _, _)
AppendItems(results, items, max_results) ==
    IF items = << >> THEN results
    ELSE LET r == Append(results, ProcessedItem(Head(items), DefaultPaths)) IN
         IF CapReached(r, max_results) THEN r
         ELSE AppendItems(r, Tail(items), max_results)

\* has_more_pages after the for loop (zenya_service.py:331-336): FALSE iff the
\* loop body ran and met the cap
RECURSIVE CapHit(_, _, _)
CapHit(results, items, max_results) ==
    IF items = << >> THEN FALSE
    ELSE LET r == Append(results, ProcessedItem(Head(items), DefaultPaths)) IN
         CapReached(r, max_results) \/ CapHit(r, Tail(items), max_results)

\* zenya_service.py:338  data.get("continuationToken", data.get("nextContinuationToken"))
NextTokenCandidate(data) ==
    DictGet(data.continuationToken, DictGet(data.nextContinuationToken, JNull))

\* zenya_service.py:236-237  continuationToken is a parameter only when truthy
SearchParams(continuation_token) ==
    [endpoint |-> "search", offset |-> 0,
     continuationToken |-> IF Truthy(continuation_token) THEN continuation_token ELSE JNull]

\* variant of ContentParams: every request asks for the first page
ContentParamsFirstPage(offset) ==
    [endpoint |-> "content_items", offset |-> 0, continuationToken |-> JNull]

\* zenya_service.py:108-115
ContentParams(offset) ==
    [endpoint |-> "content_items", offset |-> offset, continuationToken |-> JNull]

\* zenya_service.py:188-190
DownloadParams ==
    [endpoint |-> "download", offset |-> 0, continuationToken |-> JNull]

\* root_agent.py:222-227 get_zenya_documents, 241-252 search_zenya_documents,
\* 264-273 get_zenya_document_by_id, 286-291 get_zenya_content
ZnToolResult(op, out) ==
    IF out.kind = "raise"
    THEN [kind |-> "sentinel", records |-> << >>, error |-> out.error]
    ELSE IF op = "search" /\ out.value = << >>
    THEN [kind |-> "message", records |-> << >>, error |-> None]
    ELSE [kind |-> "records", records |-> out.value, error |-> None]

ZnFinish(op, out) ==
    /\ zn_out' = out
    /\ zn_tool' = ZnToolResult(op, out)
    /\ zn_pc' = IF out.kind = "raise" THEN "raised" ELSE "returned"

\* what the backend answered to a data request
ZnAnswer(status, count, ct, nct) ==
    [status |-> status, count |-> count, continuationToken |-> ct,
     nextContinuationToken |-> nct]

NoAnswer == ZnAnswer(0, 0, KeyAbsent, KeyAbsent)

\* zenya_service.py:141-143 / 277-279: a caller enters one of the walks, or
\* calls download_document (176) or load_content (89, offset given by the caller)
ZnCall ==
    /\ zn_pc = "idle"
    /\ \E op \in {"docs", "search", "download", "content"} :
         \E m \in (IF op \in {"docs", "search"} THEN Limits ELSE {None}),
            offset \in (IF op = "content" THEN {0, PAGE_LIMIT} ELSE {0}) :
              /\ zn_op' = op
              /\ zn_max_results' = m
              /\ zn_offset' = offset
    /\ zn_pc' = "walk"
    /\ zn_documents' = << >>
    /\ zn_continuation' = JNull
    /\ zn_reqs' = << >>
    /\ zn_resp' = NoAnswer
    /\ zn_page_counts' = << >>
    /\ zn_header_calls' = 0
    /\ zn_token_posts' = 0
    /\ zn_out' = NoOutcome
    /\ zn_tool' = NoTool
    /\ UNCHANGED << now, zn_token, zn_token_expiration, zn_acquired_at >>
    /\ UNCHANGED << td_vars, tl_vars, cc_vars >>

\* zenya_service.py:145-174  one iteration of collect_documents, load_content
\* (89-125) included
ZnDocsPage ==
    /\ zn_pc = "walk"
    /\ zn_op = "docs"
    /\ Len(zn_reqs) < MaxPages
    /\ \E tr \in TokenAnswers : \E resp \in DataAnswers(tr, ContentResponses) :
         /\ GetHeaders(tr)
         /\ IF HeadersFails(tr)
            THEN /\ ZnFinish("docs", Raised("token", tr.status, tr.text))
                 /\ UNCHANGED << zn_documents, zn_offset, zn_reqs, zn_resp,
                                 zn_page_counts >>
            ELSE /\ zn_reqs' = Append(zn_reqs, ContentParams(zn_offset))
                 /\ IF resp.status # 200
                    THEN /\ zn_resp' = ZnAnswer(resp.status, 0, KeyAbsent, KeyAbsent)
                         /\ ZnFinish("docs",
                                     Raised("API request failed", resp.status, resp.text))
                         /\ UNCHANGED << zn_documents, zn_offset, zn_page_counts >>
                    ELSE /\ zn_resp' = ZnAnswer(200, Len(resp.data), KeyAbsent, KeyAbsent)
                         /\ zn_page_counts' = Append(zn_page_counts, Len(resp.data))
                         /\ IF resp.data = << >>
                            THEN /\ ZnFinish("docs", Returned(zn_documents))
                                 /\ UNCHANGED << zn_documents, zn_offset >>
                            ELSE LET documents == zn_documents \o Documents(resp.data) IN
                                 /\ zn_documents' = documents
                                 /\ IF CapReached(documents, zn_max_results)
                                    THEN /\ ZnFinish("docs", Returned(documents))
                                         /\ UNCHANGED zn_offset
                                    ELSE /\ zn_offset' = zn_offset + PAGE_LIMIT
                                         /\ UNCHANGED << zn_pc, zn_out, zn_tool >>
    /\ UNCHANGED << now, zn_op, zn_max_results, zn_continuation >>
    /\ UNCHANGED << td_vars, tl_vars, cc_vars >>

\* zenya_service.py:303-355  one iteration of collect_dedicated_search_results,
\* execute_dedicated_search (199-250) included
ZnSearchPage ==
    /\ zn_pc = "walk"
    /\ zn_op = "search"
    /\ Len(zn_reqs) < MaxPages
    /\ \E tr \in TokenAnswers : \E resp \in DataAnswers(tr, SearchResponses) :
         /\ GetHeaders(tr)
         /\ IF HeadersFails(tr)
            THEN /\ ZnFinish("search", Raised("token", tr.status, tr.text))
                 /\ UNCHANGED << zn_documents, zn_continuation, zn_reqs, zn_resp >>
            ELSE /\ zn_reqs' = Append(zn_reqs, SearchParams(zn_continuation))
                 /\ IF resp.status # 200
                    THEN /\ zn_resp' = ZnAnswer(resp.status, 0, KeyAbsent, KeyAbsent)
                         /\ ZnFinish("search",
                                     Raised("API request failed", resp.status, resp.text))
                         /\ UNCHANGED << zn_documents, zn_continuation >>
                    ELSE LET search_results ==
                                 AppendItems(zn_documents, resp.items, zn_max_results)
                             next_token_candidate == NextTokenCandidate(resp)
                         IN
                         /\ zn_resp' = ZnAnswer(200, Len(resp.items), resp.continuationToken,
                                                 resp.nextContinuationToken)
                         /\ zn_documents' = search_results
                         /\ IF CapHit(zn_documents, resp.items, zn_max_results)
                            THEN /\ ZnFinish("search", Returned(search_results))
                                 /\ UNCHANGED zn_continuation
                            ELSE IF Truthy(next_token_candidate)
                            THEN /\ zn_continuation' = next_token_candidate
                                 /\ UNCHANGED << zn_pc, zn_out, zn_tool >>
                            ELSE /\ ZnFinish("search", Returned(search_results))
                                 /\ UNCHANGED zn_continuation
    /\ UNCHANGED << now, zn_op, zn_max_results, zn_offset, zn_page_counts >>
    /\ UNCHANGED << td_vars, tl_vars, cc_vars >>

\* zenya_service.py:176-197 download_document, 89-125 load_content called by
\* the tool get_zenya_content: one request
ZnSingleRequest ==
    /\ zn_pc = "walk"
    /\ zn_op \in {"download", "content"}
    /\ \E tr \in TokenAnswers : \E resp \in DataAnswers(tr, ContentResponses) :
         /\ GetHeaders(tr)
         /\ IF HeadersFails(tr)
            THEN /\ ZnFinish(zn_op, Raised("token", tr.status, tr.text))
                 /\ UNCHANGED << zn_reqs, zn_resp >>
            ELSE /\ zn_reqs' = Append(zn_reqs, IF zn_op = "download" THEN DownloadParams
                                               ELSE ContentParams(zn_offset))
                 /\ zn_resp' = ZnAnswer(resp.status, Len(resp.data), KeyAbsent, KeyAbsent)
                 /\ IF resp.status # 200
                    THEN ZnFinish(zn_op, IF zn_op = "download"
                                         THEN Raised("Can't download", resp.status, "")
                                         ELSE Raised("API request failed", resp.status,
                                                     resp.text))
                    ELSE ZnFinish(zn_op, Returned(resp.data))
    /\ UNCHANGED << now, zn_op, zn_max_results, zn_documents, zn_offset, zn_continuation,
                    zn_page_counts >>
    /\ UNCHANGED << td_vars, tl_vars, cc_vars >>

\* the caller has its result; the service is ready for the next call
ZnDone ==
    /\ zn_pc \in {"returned", "raised"}
    /\ zn_pc' = "idle"
    /\ zn_op' = "none"
    /\ zn_max_results' = None
    /\ zn_documents' = << >>
    /\ zn_offset' = 0
    /\ zn_continuation' = JNull
    /\ zn_reqs' = << >>
    /\ zn_resp' = NoAnswer
    /\ zn_page_counts' = << >>
    /\ zn_header_calls' = 0
    /\ zn_token_posts' = 0
    /\ zn_out' = NoOutcome
    /\ zn_tool' = NoTool
    /\ UNCHANGED << now, zn_token, zn_token_expiration, zn_acquired_at >>
    /\ UNCHANGED << td_vars, tl_vars, cc_vars >>

\* time passes, half a token lifetime at a step
TickStep == TOKEN_LIFETIME \div 2
Tick ==
    /\ now + TickStep <= MaxTicks * TickStep
    /\ now' = now + TickStep
    /\ UNCHANGED << zn_pc, zn_op, zn_token, zn_token_expiration, zn_acquired_at,
                    zn_max_results, zn_documents,
                    zn_offset, zn_continuation, zn_reqs, zn_resp, zn_page_counts, zn_header_calls,
                    zn_token_posts, zn_out, zn_tool >>
    /\ UNCHANGED << td_vars, tl_vars, cc_vars >>

\* zenya_service.py:12-31  __init__ requests no token
ZnInit ==
    /\ now = 0
    /\ zn_pc = "idle"
    /\ zn_op = "none"
    /\ zn_token = None
    /\ zn_token_expiration = None
    /\ zn_acquired_at = None
    /\ zn_max_results = None
    /\ zn_documents = << >>
    /\ zn_offset = 0
    /\ zn_continuation = JNull
    /\ zn_reqs = << >>
    /\ zn_resp = NoAnswer
    /\ zn_page_counts = << >>
    /\ zn_header_calls = 0
    /\ zn_token_posts = 0
    /\ zn_out = NoOutcome
    /\ zn_tool = NoTool

ZnNext == ZnCall \/ ZnDocsPage \/ ZnSearchPage \/ ZnSingleRequest \/ ZnDone \/ Tick

(***************************************************************************)
(* ZenyaService.get_headers() called by several threads on one service     *)
(* object.  The statements of get_headers and get_token are the steps: the *)
(* check of line 79, the POST of line 45, the two stores of lines 49-50    *)
(* (no other statement reads the one before the other is written), and the *)
(* return of the headers.                                                  *)
(***************************************************************************)
Callers == {1, 2}

\* variant of MayEnter: a lock around get_headers() keeps a caller out while
\* another caller is between its check and its store
MayEnterLocked(c) == \A d \in Callers \ {c} : cc_pc[d] \notin {"post", "store"}

\* zenya_service.py:67-81  get_headers takes no lock: a caller may run the
\* check whatever the other callers are doing
MayEnter(c) == TRUE

\* the Zenya state a get_headers() step leaves alone
cc_frame == << zn_pc, zn_op, zn_max_results, zn_documents, zn_offset, zn_continuation,
               zn_reqs, zn_resp, zn_page_counts, zn_header_calls, zn_token_posts, zn_out, zn_tool >>

\* zenya_service.py:79  if self.check_token_expired():
CcCheck(c) ==
    /\ cc_pc[c] = "idle"
    /\ MayEnter(c)
    /\ IF CheckTokenExpired(zn_token, zn_token_expiration, now)
       THEN /\ cc_pc' = [cc_pc EXCEPT ![c] = "post"]
            /\ cc_seen' = [cc_seen EXCEPT ![c] = Some(<< zn_token, zn_token_expiration >>)]
       ELSE /\ cc_pc' = [cc_pc EXCEPT ![c] = "done"]
            /\ UNCHANGED cc_seen
    /\ UNCHANGED << cc_resp, now, zn_token, zn_token_expiration, zn_acquired_at, cc_frame >>
    /\ UNCHANGED << td_vars, tl_vars >>

\* zenya_service.py:45-56  get_token: the POST and the test of its status
CcPost(c) ==
    /\ cc_pc[c] = "post"
    /\ \E tr \in TokenResponses :
         /\ cc_resp' = [cc_resp EXCEPT ![c] = tr]
         /\ cc_pc' = [cc_pc EXCEPT ![c] = IF tr.status = 200 THEN "store" ELSE "raised"]
    /\ UNCHANGED << cc_seen, now, zn_token, zn_token_expiration, zn_acquired_at, cc_frame >>
    /\ UNCHANGED << td_vars, tl_vars >>

\* zenya_service.py:49-52  self.token = response.json(); self.token_expiration = ...
CcStore(c) ==
    /\ cc_pc[c] = "store"
    /\ zn_token' = Some(cc_resp[c].token)
    /\ zn_token_expiration' = Some(now + TOKEN_LIFETIME)
    /\ zn_acquired_at' = Some(now)
    /\ cc_pc' = [cc_pc EXCEPT ![c] = "done"]
    /\ UNCHANGED << cc_seen, cc_resp, now, cc_frame >>
    /\ UNCHANGED << td_vars, tl_vars >>

\* zenya_service.py:83-87  the headers are returned (or the failure of
\* get_token has left get_headers); the caller may call again
CcReturn(c) ==
    /\ cc_pc[c] \in {"done", "raised"}
    /\ cc_pc' = [cc_pc EXCEPT ![c] = "idle"]
    /\ cc_seen' = [cc_seen EXCEPT ![c] = None]
    /\ cc_resp' = [cc_resp EXCEPT ![c] = NoTokenResponse]
    /\ UNCHANGED << now, zn_token, zn_token_expiration, zn_acquired_at, cc_frame >>
    /\ UNCHANGED << td_vars, tl_vars >>

CcInit ==
    /\ cc_pc = [c \in Callers |-> "idle"]
    /\ cc_seen = [c \in Callers |-> None]
    /\ cc_resp = [c \in Callers |-> NoTokenResponse]

CcNext ==
    \/ \E c \in Callers : CcCheck(c)
    \/ \E c \in Callers : CcPost(c)
    \/ \E c \in Callers : CcStore(c)
    \/ \E c \in Callers : CcReturn(c)
    \/ Tick
(***************************************************************************)
(* Tool functions and the queries they build (root_agent.py), and the      *)
(* parameters the service methods make of them.  A string is the sequence  *)
(* of its pieces, an f-string the concatenation of the pieces; None and    *)
(* the empty string are both the empty sequence (both are falsy, and no    *)
(* code modelled here tells them apart).                                   *)
(***************************************************************************)
Emails == { << "a@b.com" >>, << "x@laurens.nl" >> }
Statuses == {"open", "closed", "OPEN", "pending", ""}
Terms == { << "printer" >>, << "vpn" >> }
Numbers == { << "I-2403-0012" >> }
Identifiers == { << "KI-1" >> }

\* root_agent.py:127  the query of get_concept_knowledge_items
ConceptQuery == << "status.name", "==in=", "(Concept)" >>
\* topdesk_service.py:178
PublicQuery == << "visibility.publicKnowledgeItem", "==", "true" >>

Queries == { None, ConceptQuery, PublicQuery }
FieldLists == { << "creationDate", ",", "modificationDate" >>,
                << "title", ",", "visibility" >> }

\* Python's `piece in text`
Contains(text, piece) == \E i \in 1..Len(text) : text[i] = piece

\* variant of StatusQuery: the status is compared without regard to case
StatusQueryAnyCase(status) ==
    IF status \in {"open", "OPEN"}
    THEN << "processingStatus.name", "!=in=", "(Afgehandeld,Gesloten)" >>
    ELSE << "processingStatus.name", "==in=", "(Afgehandeld,Gesloten)" >>

\* root_agent.py:171-174
StatusQuery(status) ==
    IF status = "open"
    THEN << "processingStatus.name", "!=in=", "(Afgehandeld,Gesloten)" >>
    ELSE << "processingStatus.name", "==in=", "(Afgehandeld,Gesloten)" >>

\* root_agent.py:176  f"caller.emailAddress=='{caller_email}' and {status_query}"
CallerQuery(caller_email, status) ==
    << "caller.emailAddress", "==", "'" >> \o caller_email \o << "'", " and " >>
        \o StatusQuery(status)

\* root_agent.py:201  f"number=='{incident_number}'"
NumberQuery(incident_number) ==
    << "number", "==", "'" >> \o incident_number \o << "'" >>

\* variant of ModificationDateQuery: the visibility filter takes the place of the query
ModificationDateQueryReplace(query, public_only) ==
    IF public_only THEN PublicQuery ELSE query

\* topdesk_service.py:175-179  params["query"] of load_modification_date
\* (<< >>: the parameter is not sent)
ModificationDateQuery(query, public_only) ==
    LET given == IF query # << >> THEN query ELSE << >> IN
    IF public_only
    THEN IF given # << >> THEN given \o << " and " >> \o PublicQuery ELSE PublicQuery
    ELSE given

\* topdesk_service.py:170-171
ModificationDateFields(fields, public_only) ==
    IF public_only /\ ~Contains(fields, "visibility")
    THEN fields \o << ",", "visibility" >>
    ELSE fields

ToolNames ==
    { "get_knowledge_items", "get_public_knowledge_items", "get_knowledge_item_by_id",
      "search_knowledge_items", "get_recent_knowledge_items",
      "get_concept_knowledge_items", "get_knowledge_item_content",
      "get_incidents_by_caller", "get_incident_by_number", "get_zenya_documents",
      "search_zenya_documents", "get_zenya_document_by_id", "get_zenya_content" }

\* tools that return a dict; the others return a list
DictTools ==
    { "get_knowledge_item_by_id", "get_knowledge_item_content", "get_incident_by_number",
      "get_zenya_document_by_id", "get_zenya_content" }

\* tools that answer an empty result with a message record
MessageTools == { "search_knowledge_items", "get_incidents_by_caller", "search_zenya_documents" }

NoArgs == [caller_email |-> << >>, status |-> "", search_term |-> << >>,
           incident_number |-> << >>, identifier |-> << >>]

\* the arguments a caller gives a tool (limits and portal ids play no part here)
ToolArgs(tool) ==
    IF tool = "get_incidents_by_caller"
    THEN { [NoArgs EXCEPT !.caller_email = e, !.status = st] : e \in Emails, st \in Statuses }
    ELSE IF tool = "search_knowledge_items"
    THEN { [NoArgs EXCEPT !.search_term = t] : t \in Terms }
    ELSE IF tool = "get_incident_by_number"
    THEN { [NoArgs EXCEPT !.incident_number = n] : n \in Numbers }
    ELSE IF tool \in {"get_knowledge_item_by_id", "get_knowledge_item_content"}
    THEN { [NoArgs EXCEPT !.identifier = i] : i \in Identifiers }
    ELSE { NoArgs }

NoCall == [method |-> "none", query |-> << >>, search_term |-> << >>,
           fields |-> << >>, public_only |-> FALSE]

\* root_agent.py:17-291  the service method a tool calls, and the query,
\* search term and public_only it passes
ToolCall(tool, args) ==
    IF tool \in {"get_knowledge_items"}
    THEN [NoCall EXCEPT !.method = "load_knowledge_items"]
    ELSE IF tool = "get_public_knowledge_items"
    THEN [NoCall EXCEPT !.method = "load_knowledge_items", !.public_only = TRUE]
    ELSE IF tool = "search_knowledge_items"
    THEN [NoCall EXCEPT !.method = "load_knowledge_items",
                        !.search_term = args.search_term]
    ELSE IF tool \in {"get_knowledge_item_by_id", "get_knowledge_item_content"}
    THEN [NoCall EXCEPT !.method = "load_knowledge_item_by_identifier"]
    ELSE IF tool = "get_recent_knowledge_items"
    THEN [NoCall EXCEPT !.method = "load_modification_date"]
    ELSE IF tool = "get_concept_knowledge_items"
    THEN [NoCall EXCEPT !.method = "load_modification_date", !.query = ConceptQuery]
    ELSE IF tool = "get_incidents_by_caller"
    THEN [NoCall EXCEPT !.method = "load_incidents",
                        !.query = CallerQuery(args.caller_email, args.status)]
    ELSE IF tool = "get_incident_by_number"
    THEN [NoCall EXCEPT !.method = "load_incidents",
                        !.query = NumberQuery(args.incident_number)]
    ELSE IF tool = "get_zenya_documents"
    THEN [NoCall EXCEPT !.method = "collect_documents"]
    ELSE IF tool = "search_zenya_documents"
    THEN [NoCall EXCEPT !.method = "collect_dedicated_search_results"]
    ELSE IF tool = "get_zenya_document_by_id"
    THEN [NoCall EXCEPT !.method = "download_document"]
    ELSE [NoCall EXCEPT !.method = "load_content"]

\* the lists a service method returns
ListValues == { << >>, << "a" >>, << "a", "b" >> }

\* how a service method can end.  load_knowledge_items reads self.base_url
\* (topdesk_service.py:124), an attribute TopdeskService never sets (__init__
\* sets api_url), so every call raises AttributeError before it sends a request.
ServiceOutcomes(method) ==
    IF method = "load_knowledge_items"
    THEN { Raised("AttributeError", 0, "base_url") }
    ELSE IF method \in {"load_modification_date", "load_incidents"}
    THEN { Returned(v) : v \in ListValues }
         \cup { Raised("API request failed", 500, t) : t \in Texts }
    ELSE IF method = "load_knowledge_item_by_identifier"
    THEN { LoadKnowledgeItemByIdentifier(r) : r \in LookupResponses }
    ELSE IF method = "collect_documents"
    THEN { Returned(v) : v \in ListValues }
         \cup { Raised("token", 500, t) : t \in Texts }
         \cup { Raised("API request failed", 500, t) : t \in Texts }
         \cup { Raised("KeyError", 0, "source_item_id") }
    ELSE IF method = "collect_dedicated_search_results"
    THEN { Returned(v) : v \in ListValues }
         \cup { Raised("token", 500, t) : t \in Texts }
         \cup { Raised("API verzoek via /search mislukt", 500, t) : t \in Texts }
    ELSE IF method = "download_document"
    THEN { Returned(<< "a" >>) }
         \cup { Raised("token", 500, t) : t \in Texts }
         \cup { Raised("Can't download", 500, "") }
    ELSE { Returned(<< "a" >>) }
         \cup { Raised("token", 500, t) : t \in Texts }
         \cup { Raised("API request failed", 500, t) : t \in Texts }

NoRequest == [sent |-> FALSE, endpoint |-> "", query |-> << >>, searchTerm |-> << >>,
              fields |-> << >>]

\* the first data request of a service method: none when the method raises
\* before it sends one (load_knowledge_items, a failed token acquisition)
FirstRequest(call, below) ==
    IF call.method = "load_knowledge_items" THEN NoRequest
    ELSE IF below.kind = "raise" /\ Val(below.error).what = "token" THEN NoRequest
    ELSE IF call.method = "load_modification_date"
    THEN [sent |-> TRUE, endpoint |-> "/services/knowledge-base-v1/knowledgeItems",
          query |-> ModificationDateQuery(call.query, call.public_only),
          searchTerm |-> << >>,
          fields |-> ModificationDateFields(call.fields, call.public_only)]
    ELSE IF call.method = "load_incidents"
    THEN [sent |-> TRUE, endpoint |-> "/tas/api/incidents",
          query |-> IF call.query # << >> THEN call.query ELSE << >>,
          searchTerm |-> << >>, fields |-> call.fields]
    ELSE [NoRequest EXCEPT !.sent = TRUE, !.endpoint = call.method]

\* variant of ToolCatches: only a failed request is caught
ToolCatchesRequestFailure(tool, error) == error.what = "API request failed"

\* root_agent.py  `except Exception as e:` of every tool: all the failures of
\* the layers below are exceptions of class Exception
ToolCatches(tool, error) == TRUE

\* root_agent.py:17-291  what a tool hands out for the outcome of its service call
ToolReturn(tool, below) ==
    LET shape == IF tool \in DictTools THEN "dict" ELSE "list" IN
    IF below.kind = "raise"
    THEN IF ToolCatches(tool, Val(below.error))
         THEN [kind |-> "error", shape |-> shape, value |-> << >>, propagates |-> FALSE]
         ELSE [kind |-> "raise", shape |-> "", value |-> << >>, propagates |-> TRUE]
    ELSE IF tool \in MessageTools /\ below.value = << >>
    THEN [kind |-> "message", shape |-> shape, value |-> << >>, propagates |-> FALSE]
    ELSE IF /\ tool \in {"get_knowledge_item_by_id", "get_knowledge_item_content"}
            /\ (below.value = None \/ Val(below.value) = EmptyItem)
    THEN [kind |-> "error", shape |-> shape, value |-> << >>, propagates |-> FALSE]
    ELSE IF tool = "get_incident_by_number"
    THEN IF below.value = << >>
         THEN [kind |-> "error", shape |-> shape, value |-> << >>, propagates |-> FALSE]
         ELSE [kind |-> "value", shape |-> shape, value |-> << Head(below.value) >>,
               propagates |-> FALSE]
    ELSE [kind |-> "value", shape |-> shape, value |-> below.value, propagates |-> FALSE]

NoResult == [kind |-> "none", shape |-> "", value |-> << >>, propagates |-> FALSE]

\* a caller invokes a tool function
ToolInvoke ==
    /\ tl_pc = "idle"
    /\ \E tool \in ToolNames :
         \E args \in ToolArgs(tool) :
           LET call == ToolCall(tool, args) IN
           \E below \in ServiceOutcomes(call.method) :
              /\ tl_tool' = tool
              /\ tl_args' = args
              /\ tl_call' = call
              /\ tl_below' = below
              /\ tl_request' = FirstRequest(call, below)
              /\ tl_result' = ToolReturn(tool, below)
    /\ tl_pc' = "done"
    /\ UNCHANGED << td_vars, zn_vars, cc_vars >>

\* topdesk_service.py:149-182  load_modification_date called directly
LoadModificationDate ==
    /\ tl_pc = "idle"
    /\ \E query \in Queries, fields \in FieldLists, public_only \in BOOLEAN :
         LET call == [NoCall EXCEPT !.method = "load_modification_date", !.query = query,
                                    !.fields = fields, !.public_only = public_only] IN
         \E below \in ServiceOutcomes(call.method) :
            /\ tl_call' = call
            /\ tl_below' = below
            /\ tl_request' = FirstRequest(call, below)
    /\ tl_tool' = "none"
    /\ tl_args' = NoArgs
    /\ tl_result' = NoResult
    /\ tl_pc' = "done"
    /\ UNCHANGED << td_vars, zn_vars, cc_vars >>

\* records of the /search endpoint with nested mappings, and the keys of the paths
NestedItems ==
    << [title |-> JStr("S1"),
        type |-> JDict([name |-> JStr("document"),
                        type |-> JDict([name |-> JNull])])],
       [title |-> JNull] >>
PathKeys == {"title", "type", "name", "missing"}

\* zenya_service.py:282-300  get_nested_value applied to a record and a path
NestedValue ==
    /\ tl_pc = "idle"
    /\ \E i \in 1..Len(NestedItems), path \in SeqsUpTo(PathKeys, MaxPathLen) :
         LET value == GetNestedValue(NestedItems[i], path) IN
         /\ tl_call' = [method |-> "get_nested_value", item |-> i, path |-> path]
         /\ tl_below' = IF value.t = "raise" THEN Raised(value.v, 0, "")
                        ELSE Returned(Some(value))
    /\ tl_tool' = "none"
    /\ tl_args' = NoArgs
    /\ tl_request' = NoRequest
    /\ tl_result' = NoResult
    /\ tl_pc' = "done"
    /\ UNCHANGED << td_vars, zn_vars, cc_vars >>

\* the caller has its result
ToolDone ==
    /\ tl_pc = "done"
    /\ tl_pc' = "idle"
    /\ tl_tool' = "none"
    /\ tl_args' = NoArgs
    /\ tl_call' = NoCall
    /\ tl_request' = NoRequest
    /\ tl_below' = NoOutcome
    /\ tl_result' = NoResult
    /\ UNCHANGED << td_vars, zn_vars, cc_vars >>

TlInit ==
    /\ tl_pc = "idle"
    /\ tl_tool = "none"
    /\ tl_args = NoArgs
    /\ tl_call = NoCall
    /\ tl_request = NoRequest
    /\ tl_below = NoOutcome
    /\ tl_result = NoResult

TlNext == ToolInvoke \/ LoadModificationDate \/ NestedValue \/ ToolDone

Init == TdInit /\ ZnInit /\ TlInit /\ CcInit

SpecTopdesk == Init /\ [][TdNext]_vars

SpecZenya == Init /\ [][ZnNext]_vars

\* the credentials of both services: TopdeskService is constructed, and the
\* ZenyaService (constructed in Init) runs collect_documents, download_document
\* and load_content
CredNext == TdConstruct \/ ZnCall \/ ZnDocsPage \/ ZnSingleRequest \/ ZnDone \/ Tick

SpecCredentials == Init /\ [][CredNext]_vars

SpecTools == Init /\ [][TlNext]_vars

\* the page walks of both services, a process using one of them: the
\* ZenyaService walks while no TopdeskService has been constructed; the
\* TopdeskService is constructed and walks while the ZenyaService is unused
ZenyaUnused == zn_pc = "idle" /\ zn_token = None /\ now = 0

TopdeskWalks == ZenyaUnused /\ (TdConstruct \/ TdCall \/ TdPage \/ TdDone)

ZenyaWalks == td_pc = "new" /\ (ZnCall \/ ZnDocsPage \/ ZnSearchPage \/ ZnDone \/ Tick)

WalksNext == TopdeskWalks \/ ZenyaWalks

SpecWalks == Init /\ [][WalksNext]_vars

\* two threads calling get_headers() on the one ZenyaService
SpecConcurrent == Init /\ [][CcNext]_vars

(***************************************************************************)
(* Properties of TopdeskService._load_paginated_data                       *)
(***************************************************************************)
Last(s) == s[Len(s)]

IsPrefix(p, s) == Len(p) <= Len(s) /\ SubSeq(s, 1, Len(p)) = p

\* every page the walk received had status 200 or 206 and a body that parsed
TdWellFormed ==
    \A i \in 1..Len(td_resps) : td_resps[i].status \in {200, 206} /\ td_resps[i].parses

\* C1: against a backend that serves a non-empty record list as well-formed
\* pages, the returned list is a prefix of the records in backend order, kept
\* with their duplicates; its length is min(total, limit) when a limit is set
\* and the total otherwise.  (A walk that returns below its limit, or without
\* one, has seen the 200 page, so td_served is then the backend's total; a
\* walk cut at its limit has total >= Len(td_served) >= limit.)
C1_PrefixOfBackendItems ==
    (td_pc = "returned" /\ TdWellFormed /\ Len(td_served) > 0) =>
        /\ IsPrefix(td_out.value, td_served)
        /\ IF td_limit = None
           THEN /\ td_out.value = td_served
                /\ Last(td_resps).status = 200
           ELSE /\ Len(td_out.value) = Min(Len(td_served), Val(td_limit))
                /\ Len(td_served) < Val(td_limit) => Last(td_resps).status = 200

\* C1 witness: a limited walk over two pages that returns three of four
\* records, a duplicate among them
C1_Witness ==
    /\ td_pc = "returned"
    /\ TdWellFormed
    /\ td_limit = Some(3)
    /\ Len(td_reqs) = 2
    /\ td_served = << "a", "a", "b", "a" >>
    /\ td_out.value = << "a", "a", "b" >>

\* C4: with no limit the requests carry start = 0, page_size, 2*page_size, ...
\* in order, no request follows a 200 answer, and the walk does not return
\* on a parsed 206 page: 206 to the first N requests and 200 to request N+1
\* makes exactly N+1 requests.
C4_RequestsAndOffsets ==
    (td_op = "walk" /\ td_limit = None) =>
        /\ \A i \in 1..Len(td_reqs) : td_reqs[i].start = (i - 1) * td_reqs[i].page_size
        /\ \A i \in 1..Len(td_resps) : td_resps[i].status = 200 => i = Len(td_reqs)
        /\ Len(td_reqs) = Len(td_resps)
        /\ (td_pc = "returned" /\ Last(td_resps).parses) => Last(td_resps).status = 200

\* C4 witness: 2 records + 206 at start=0, then 1 record + 200 at start=1000:
\* 3 records after exactly 2 requests
C4_Witness ==
    /\ td_pc = "returned"
    /\ td_limit = None
    /\ Len(td_reqs) = 2
    /\ td_reqs[1].start = 0 /\ td_reqs[2].start = 1000
    /\ td_resps[1] = Answer(206, TRUE, 2, "")
    /\ td_resps[2] = Answer(200, TRUE, 1, "")
    /\ Len(td_out.value) = 3

\* a page has been appended and the accumulator has reached the limit
TdLimitHit ==
    /\ td_limit # None
    /\ Len(td_resps) > 0
    /\ Last(td_resps).parses
    /\ Len(td_items) >= Val(td_limit)

\* C5: once the limit is set and the accumulator has reached or exceeded it
\* after a page is appended, the walk has returned the accumulator cut to
\* exactly limit entries, and no further request is issued, also when the
\* page's status was 206.
C5_StopAtLimit ==
    /\ [](TdLimitHit =>
            /\ td_pc = "returned"
            /\ Len(td_out.value) = Val(td_limit)
            /\ td_out.value = SubSeq(td_items, 1, Val(td_limit)))
    /\ [][TdLimitHit => Len(td_reqs') <= Len(td_reqs)]_vars

\* C5 witness: the limit is passed in the middle of a 206 page
C5_Witness ==
    /\ TdLimitHit
    /\ td_limit = Some(1)
    /\ Last(td_resps).status = 206
    /\ Len(td_items) = 2
    /\ td_out.value = << "b" >>

\* C6: a page answered with a status other than 200/206 ends the walk with a
\* raised error that carries the status code and the response body; the
\* caller gets none of the records of the earlier pages, and the tool hands
\* out a single error sentinel instead of a record list.
C6_FailureRaises ==
    \A i \in 1..Len(td_resps) :
        td_resps[i].status \notin {200, 206} =>
            /\ i = Len(td_resps)
            /\ Len(td_reqs) = i
            /\ td_pc = "raised"
            /\ td_out.kind = "raise"
            /\ td_out.error = Some([what |-> "API request failed",
                                    status |-> td_resps[i].status, text |-> td_resps[i].text])
            /\ td_out.value = << >>
            /\ td_tool.kind = "sentinel"
            /\ td_tool.error = td_out.error
            /\ td_tool.records = << >>

\* C6 witness: the second page fails after the first one delivered records
C6_Witness ==
    /\ td_pc = "raised"
    /\ Len(td_resps) = 2
    /\ td_resps[2].status = 500
    /\ td_resps[2].text = "e2"
    /\ Len(td_items) = 2

\* C7: a 200/206 page whose body does not parse ends the walk without a raised
\* error: no further request, and exactly the records of the pages before it
\* are returned.
C7_MalformedStops ==
    \A i \in 1..Len(td_resps) :
        (td_resps[i].status \in {200, 206} /\ ~td_resps[i].parses) =>
            /\ i = Len(td_resps)
            /\ Len(td_reqs) = i
            /\ td_pc = "returned"
            /\ td_out = Returned(td_served)
            /\ td_tool.kind = "records"
            /\ td_tool.records = td_served

\* C7 witness: a malformed 206 page after a page of two records
C7_Witness ==
    /\ td_pc = "returned"
    /\ Len(td_resps) = 2
    /\ td_resps[2] = Answer(206, FALSE, 0, "")
    /\ td_out.value = << "a", "b" >>

\* C8: in every page walk a page with zero records is the last one: no further
\* page request is issued after it and the records collected so far are
\* returned (a walk cannot go on over empty pages).
C8_EmptyPageHalts ==
    /\ \A i \in 1..Len(td_resps) :
         (td_resps[i].parses /\ td_resps[i].count = 0) =>
             /\ Len(td_reqs) = i
             /\ td_pc # "walk" => (td_pc = "returned" /\ td_out.value = td_served)
    /\ (zn_op \in {"docs", "search"} /\ zn_resp.status = 200 /\ zn_resp.count = 0) =>
             /\ zn_pc = "returned"
             /\ zn_out.value = zn_documents

(***************************************************************************)
(* Properties of ZenyaService                                              *)
(***************************************************************************)

\* C2: collect_dedicated_search_results(max_results=m) returns at most m
\* records, for every m >= 0 and every sequence of backend pages.
C2_SearchCap ==
    (zn_op = "search" /\ zn_pc = "returned" /\ zn_max_results # None) =>
        Len(zn_out.value) <= Val(zn_max_results)

\* C3: collect_documents(max_results=m), and with it the tool
\* get_zenya_documents(max_results=m), returns at most m records, for every
\* m >= 0 and every sequence of backend pages.
C3_DocumentsCap ==
    (zn_op = "docs" /\ zn_pc = "returned" /\ zn_max_results # None) =>
        /\ Len(zn_out.value) <= Val(zn_max_results)
        /\ Len(zn_tool.records) <= Val(zn_max_results)

\* the next token a search response carries: the non-empty value under
\* "continuationToken", else the non-empty value under "nextContinuationToken"
CarriedNextToken(answer) ==
    IF answer.continuationToken.present /\ Truthy(answer.continuationToken.value)
    THEN answer.continuationToken.value
    ELSE IF answer.nextContinuationToken.present /\ Truthy(answer.nextContinuationToken.value)
    THEN answer.nextContinuationToken.value
    ELSE JNull

\* C9: in collect_dedicated_search_results with the cap not reached, the walk
\* stops exactly at the first page whose response carries no next token; the
\* first request has no continuationToken and every later request carries
\* the token of the response before it.
C9_TokenWalk ==
    /\ [](zn_op = "search" =>
            /\ Len(zn_reqs) >= 1 => zn_reqs[1].continuationToken = JNull
            /\ (zn_pc = "returned" /\ ~CapReached(zn_documents, zn_max_results)) =>
                   CarriedNextToken(zn_resp) = JNull
            /\ (zn_resp.status = 200 /\ CarriedNextToken(zn_resp) = JNull) =>
                   zn_pc = "returned")
    /\ [][(zn_op = "search" /\ Len(zn_reqs) >= 1 /\ Len(zn_reqs') = Len(zn_reqs) + 1) =>
            Last(zn_reqs').continuationToken = CarriedNextToken(zn_resp)]_vars

\* C10: a token request is made exactly in a get_headers() call that finds
\* check_token_expired() true; a credential that is not expired is left as it
\* is, a failed data request ends the operation, and after a failure no
\* further token or data request is made.
C10_OnlyTrigger ==
    /\ [](zn_resp.status \notin {0, 200} => zn_pc = "raised")
    /\ [][/\ (zn_token_posts' = zn_token_posts + 1) <=>
              (/\ zn_header_calls' = zn_header_calls + 1
               /\ CheckTokenExpired(zn_token, zn_token_expiration, now))
          /\ zn_token_posts' \in {0, zn_token_posts, zn_token_posts + 1}
          /\ ~CheckTokenExpired(zn_token, zn_token_expiration, now) =>
                 (zn_token' = zn_token /\ zn_token_expiration' = zn_token_expiration)
          /\ zn_pc = "raised" =>
                 (zn_token_posts' <= zn_token_posts /\ Len(zn_reqs') <= Len(zn_reqs))
         ]_vars

\* C10 witness: a walk of three requests; the credential was acquired for the
\* first, had expired before a later one and was acquired again, and was
\* still alive for the other
C10_Witness ==
    /\ zn_pc = "returned"
    /\ Len(zn_reqs) = 3
    /\ zn_header_calls = 3
    /\ zn_token_posts = 2

\* C11: check_token_expired() is true iff no token has ever been acquired or
\* the clock is at or past the recorded expiration; a token acquired at
\* instant t expires at t + 60s, so the check is false at every instant of
\* [t, t + 60s) and true from t + 60s on until the next acquisition.
C11_ExpiryWindow ==
    /\ (zn_token = None) <=> (zn_acquired_at = None)
    /\ zn_acquired_at # None => zn_token_expiration = Some(Val(zn_acquired_at) + 60)
    /\ CheckTokenExpired(zn_token, zn_token_expiration, now) <=>
           (zn_acquired_at = None \/ now >= Val(zn_acquired_at) + 60)
    /\ zn_acquired_at # None =>
           /\ Val(zn_acquired_at) <= now
           /\ now < Val(zn_acquired_at) + 60 =>
                  ~CheckTokenExpired(zn_token, zn_token_expiration, now)

\* C11 witness: the clock stands exactly at t + 60s of a token acquired at
\* t = 0 and the check is true; no request has renewed the token yet
C11_Witness ==
    /\ zn_acquired_at = Some(0)
    /\ now = 60
    /\ CheckTokenExpired(zn_token, zn_token_expiration, now)

(***************************************************************************)
(* Properties of the credentials                                           *)
(***************************************************************************)

\* C12: the credential is created at service construction for both backends:
\* once construction of TopdeskService or of ZenyaService has completed, a
\* token request has been made and the service holds an acquired token.
C12_TokenAtConstruction ==
    /\ td_pc \notin {"new", "failed"} => (td_token_reqs >= 1 /\ td_token # None)
    /\ zn_token # None
    /\ zn_acquired_at # None

\* C12 as amended: TopdeskService acquires its credential at construction (one
\* token request, and the token is held when construction completes);
\* ZenyaService holds no token when it is constructed, its token is stored
\* only by a get_headers() call, and the first get_headers() call makes the
\* token request.
C12_TokenAtFirstUse ==
    /\ zn_token = None /\ zn_acquired_at = None
    /\ [](/\ td_pc = "new" => (td_token = None /\ td_token_reqs = 0)
          /\ td_pc = "idle" => (td_token # None /\ td_token_reqs = 1)
          /\ td_pc = "failed" => (td_token = None /\ td_token_reqs = 1))
    /\ [][/\ zn_token' # zn_token =>
                (/\ zn_header_calls' = zn_header_calls + 1
                 /\ zn_token_posts' = zn_token_posts + 1)
          /\ (zn_token = None /\ zn_header_calls' = zn_header_calls + 1) =>
                zn_token_posts' = zn_token_posts + 1
         ]_vars

\* C12 witness: both services hold a token, Topdesk's from its construction and
\* Zenya's from the get_headers() call of its first request
C12_Witness ==
    /\ td_pc = "idle"
    /\ td_token = Some("k2")
    /\ td_token_reqs = 1
    /\ zn_token = Some("z1")
    /\ zn_acquired_at = Some(30)
    /\ zn_header_calls = 1
    /\ zn_token_posts = 1
    /\ Len(zn_reqs) = 1

\* C13: once TopdeskService construction has succeeded, no page walk and no
\* single-item lookup, whatever its outcome, issues another token request or
\* changes the stored token, and every data request carries the token
\* obtained at construction.
C13_TokenNeverRefreshed ==
    /\ [](td_pc \notin {"new", "failed"} =>
            /\ td_token # None
            /\ td_token_reqs = 1
            /\ \A i \in 1..Len(td_reqs) : td_reqs[i].token = td_token
            /\ td_lookup.status # 0 => td_lookup.token = td_token)
    /\ [][td_pc # "new" => (td_token' = td_token /\ td_token_reqs' = td_token_reqs)]_vars

\* C13 witness: a lookup the backend refused with 500, sent with the token of
\* the construction, and still one token request in all
C13_Witness ==
    /\ td_pc = "raised"
    /\ td_op = "item"
    /\ td_lookup.status = 500
    /\ td_lookup.token = Some("k1")
    /\ td_token = Some("k1")
    /\ td_token_reqs = 1

\* C14: a token endpoint answer with a status other than 200 makes the
\* acquisition raise an error that carries the status code and the body; for
\* Topdesk the construction is aborted (no token, no service), for Zenya the
\* running call is aborted before its data request is sent.
C14_TokenFailureRaises ==
    /\ [](/\ td_pc = "failed" <=> td_out.kind = "raise"
          /\ td_pc = "failed" =>
                /\ td_token = None
                /\ Val(td_out.error).what = "Something went wrong while creating the token"
                /\ Val(td_out.error).status \in TokenStatuses \ {200}
                /\ Val(td_out.error).text \in Texts
          /\ td_pc = "idle" => td_token # None
          /\ (zn_out.kind = "raise" /\ Val(zn_out.error).what = "token") =>
                /\ zn_pc = "raised"
                /\ Val(zn_out.error).status \in TokenStatuses \ {200}
                /\ Val(zn_out.error).text \in Texts
                /\ zn_tool.kind = "sentinel"
                /\ zn_tool.error = zn_out.error)
    /\ [][/\ (zn_token_posts' = zn_token_posts + 1 /\ zn_acquired_at' = zn_acquired_at) =>
                /\ zn_out'.kind = "raise"
                /\ Val(zn_out'.error).what = "token"
                /\ zn_reqs' = zn_reqs
                /\ zn_token' = zn_token
          /\ (zn_token_posts' = zn_token_posts + 1 /\ zn_acquired_at' # zn_acquired_at) =>
                (zn_out'.kind = "raise" => Val(zn_out'.error).what # "token")
          /\ td_pc = "failed" => td_pc' = "failed"
         ]_vars

\* C14 witness: the Topdesk login was refused with 500, so construction was
\* aborted; and a Zenya walk whose token had expired after its first page was
\* refused a new token with 500 and stopped with one data request sent
C14_Witness ==
    /\ td_pc = "failed"
    /\ Val(td_out.error).status = 500
    /\ Val(td_out.error).text = "e1"
    /\ zn_pc = "raised"
    /\ zn_op = "docs"
    /\ Val(zn_out.error) = [what |-> "token", status |-> 500, text |-> "e2"]
    /\ Len(zn_reqs) = 1
    /\ zn_token_posts = 2

(***************************************************************************)
(* Properties of the single-item lookup                                    *)
(***************************************************************************)

C15_ToolsNeverPropagate ==
    (tl_pc = "done" /\ tl_tool # "none") =>
        /\ ~tl_result.propagates
        /\ tl_result.kind \in {"value", "message", "error"}
        /\ tl_below.kind = "raise" =>
              tl_result = [kind |-> "error",
                           shape |-> IF tl_tool \in {"get_knowledge_item_by_id",
                                                     "get_knowledge_item_content",
                                                     "get_incident_by_number",
                                                     "get_zenya_document_by_id",
                                                     "get_zenya_content"}
                                     THEN "dict" ELSE "list",
                           value |-> << >>, propagates |-> FALSE]

\* C15 witness: collect_documents met a record without source_item_id and
\* get_zenya_documents handed out a list with the error record
C15_Witness ==
    /\ tl_pc = "done"
    /\ tl_tool = "get_zenya_documents"
    /\ tl_below.kind = "raise"
    /\ Val(tl_below.error).what = "KeyError"
    /\ tl_result.kind = "error"
    /\ tl_result.shape = "list"

\* C17: get_nested_value is total on mapping records: for a path whose keys
\* are all present in nested mappings it returns the leaf value unchanged;
\* for a path of length zero (or None) and for a path with a missing key or
\* a value on the way that is no mapping it returns null; it never raises.
\* (at[i] is the value reached after i keys, computed from the front.)
C17_NestedValueTotal ==
    (tl_pc = "done" /\ tl_call.method = "get_nested_value") =>
        LET path == tl_call.path
            n == Len(path)
            Missing == [t |-> "missing", v |-> ""]
            at[i \in 0..n] ==
                IF i = 0 THEN JDict(NestedItems[tl_call.item])
                ELSE IF at[i - 1].t = "dict" /\ path[i] \in DOMAIN at[i - 1].v
                     THEN at[i - 1].v[path[i]]
                     ELSE Missing
            expected == IF n = 0 \/ at[n].t = "missing" THEN JNull ELSE at[n]
        IN /\ tl_below.kind = "return"
           /\ Val(tl_below.value).t = expected.t
           /\ Val(tl_below.value) = expected

\* C17 witness: the path type.name of the first record leads to its leaf
C17_Witness ==
    /\ tl_pc = "done"
    /\ tl_call.method = "get_nested_value"
    /\ tl_call.item = 1
    /\ tl_call.path = << "type", "name" >>
    /\ tl_below = Returned(Some(JStr("document")))

\* C18: the query get_incidents_by_caller(email, status) builds is
\* caller.emailAddress=='<email>', then ' and ', then one status clause:
\* processingStatus.name!=in=(Afgehandeld,Gesloten) iff status is the string
\* "open", processingStatus.name==in=(Afgehandeld,Gesloten) for every other
\* status; it is the query of the incidents request.
C18_CallerQuery ==
    (tl_pc = "done" /\ tl_tool = "get_incidents_by_caller") =>
        LET clause == IF tl_args.status = "open"
                      THEN << "processingStatus.name", "!=in=", "(Afgehandeld,Gesloten)" >>
                      ELSE << "processingStatus.name", "==in=", "(Afgehandeld,Gesloten)" >>
        IN /\ tl_call.method = "load_incidents"
           /\ tl_call.query = << "caller.emailAddress", "==", "'" >> \o tl_args.caller_email
                                 \o << "'" >> \o << " and " >> \o clause
           /\ tl_request.sent
           /\ tl_request.endpoint = "/tas/api/incidents"
           /\ tl_request.query = tl_call.query

\* C18 witness: the unrecognised status "OPEN" gives the clause of closed tickets
C18_Witness ==
    /\ tl_pc = "done"
    /\ tl_tool = "get_incidents_by_caller"
    /\ tl_args.status = "OPEN"
    /\ tl_call.query = << "caller.emailAddress", "==", "'", "a@b.com", "'", " and ",
                          "processingStatus.name", "==in=", "(Afgehandeld,Gesloten)" >>

\* C19: load_modification_date with public_only=True sends
\* '<query> and visibility.publicKnowledgeItem==true' when a query is given
\* and the bare filter otherwise; with public_only=False it sends the query
\* unchanged.
C19_PublicFilterAnd ==
    (tl_pc = "done" /\ tl_call.method = "load_modification_date") =>
        /\ tl_request.sent
        /\ tl_request.query =
              IF tl_call.public_only
              THEN IF tl_call.query # << >>
                   THEN tl_call.query \o << " and " >>
                            \o << "visibility.publicKnowledgeItem", "==", "true" >>
                   ELSE << "visibility.publicKnowledgeItem", "==", "true" >>
              ELSE tl_call.query

\* C19 witness: a caller's query with public_only=True
C19_Witness ==
    /\ tl_pc = "done"
    /\ tl_tool = "none"
    /\ tl_call.method = "load_modification_date"
    /\ tl_call.public_only
    /\ tl_call.query = << "status.name", "==in=", "(Concept)" >>
    /\ tl_request.query = << "status.name", "==in=", "(Concept)", " and ",
                             "visibility.publicKnowledgeItem", "==", "true" >>

\* C20: search_knowledge_items(term, limit) sends a knowledge-items request
\* that carries searchTerm=term and no query clause, and returns the records
\* that request yields.
C20_SearchTermRequest ==
    (tl_pc = "done" /\ tl_tool = "search_knowledge_items") =>
        /\ tl_call.search_term = tl_args.search_term
        /\ tl_call.query = << >>
        /\ tl_request.sent
        /\ tl_request.searchTerm = tl_args.search_term
        /\ tl_request.query = << >>
        /\ tl_result.kind \in {"value", "message"}

(***************************************************************************)
(* Headers and page requests of both services                              *)
(***************************************************************************)
ZenyaWalking == zn_op \in {"docs", "search"}

\* C21 as stated: in each page walk of either backend every page request is
\* preceded by its own get_headers() call, so the walk has made at least as
\* many get_headers() calls as page requests.
C21_HeadersPerPageRequest ==
    /\ td_op = "walk" => td_header_calls >= Len(td_reqs)
    /\ ZenyaWalking => zn_header_calls >= Len(zn_reqs)

\* C21, amended: every page request of a ZenyaService walk is preceded by its
\* own get_headers() call, and a credential that is expired when a page
\* request is due is replaced by a fresh one before the request is sent; the
\* TopdeskService walk calls get_headers() once, before its first request, and
\* sends the headers of that call (the token of construction) on every page.
C21_HeadersPerZenyaRequest ==
    [][ /\ ZenyaWalking' =>
            /\ zn_header_calls' >= Len(zn_reqs')
            /\ zn_header_calls' <= Len(zn_reqs') + 1
        /\ (ZenyaWalking /\ Len(zn_reqs') = Len(zn_reqs) + 1) =>
            /\ zn_header_calls' = zn_header_calls + 1
            /\ CheckTokenExpired(zn_token, zn_token_expiration, now) =>
                /\ zn_acquired_at' = Some(now)
                /\ zn_token' # None
                /\ zn_token_expiration' = Some(now + TOKEN_LIFETIME)
        /\ td_op' = "walk" =>
            /\ td_header_calls' = 1
            /\ \A i \in 1..Len(td_reqs') : td_reqs'[i].token = td_token'
      ]_vars

\* C21 witness: a ZenyaService walk whose second page request was sent after
\* the credential of the first had expired: get_headers() was called for each
\* request and acquired a token both times
C21_Witness ==
    /\ ZenyaWalking
    /\ Len(zn_reqs) = 2
    /\ zn_header_calls = 2
    /\ zn_token_posts = 2
    /\ now = TOKEN_LIFETIME
    /\ zn_acquired_at = Some(TOKEN_LIFETIME)

\* C22: every page request the TopdeskService sends carries a page_size of at
\* most 1000, whatever page_size the caller passed to load_modification_date
\* or load_incidents.
C22_PageSizeCap ==
    \A i \in 1..Len(td_reqs) : td_reqs[i].page_size <= 1000

\* C23: a cap of zero does not short-circuit a page walk: a TopdeskService
\* walk with limit=0, and collect_documents and
\* collect_dedicated_search_results with max_results=0, have issued at least
\* one page request when they return.
C23_ZeroCapFetchesFirstPage ==
    /\ (td_op = "walk" /\ td_limit = Some(0) /\ td_pc = "returned") =>
           Len(td_reqs) >= 1
    /\ (ZenyaWalking /\ zn_max_results = Some(0) /\ zn_pc = "returned") =>
           Len(zn_reqs) >= 1

\* C23 witness: collect_dedicated_search_results(max_results=0) has returned
\* after one page request whose page held two records
C23_Witness ==
    /\ zn_op = "search"
    /\ zn_max_results = Some(0)
    /\ zn_pc = "returned"
    /\ Len(zn_reqs) = 1
    /\ zn_resp.status = 200
    /\ zn_resp.count = 2

\* C24: collect_dedicated_search_results looks for the next token under both
\* keys: whenever the cap is not reached and the page just received holds a
\* non-empty value under continuationToken or under nextContinuationToken
\* (the other key absent, null or empty), the walk goes on and its next
\* request carries that value.
C24_NextTokenUnderEitherKey ==
    (/\ zn_op = "search"
     /\ zn_resp.status = 200
     /\ ~CapReached(zn_documents, zn_max_results)
     /\ Truthy(CarriedNextToken(zn_resp))) =>
        /\ zn_pc = "walk"
        /\ SearchParams(zn_continuation).continuationToken = CarriedNextToken(zn_resp)

\* C25: across all page requests of one _load_paginated_data walk the
\* caller's base parameters (query, fields, page_size) are sent unchanged on
\* every request; only start differs from one request to the next.
C25_BaseParamsUnchanged ==
    td_op = "walk" =>
        /\ \A i \in 1..Len(td_reqs) :
             /\ td_reqs[i].query = td_base.query
             /\ td_reqs[i].fields = td_base.fields
             /\ td_reqs[i].page_size = td_base.page_size
        /\ \A i, j \in 1..Len(td_reqs) : i # j => td_reqs[i].start # td_reqs[j].start

\* C25 witness: a filtered walk has sent three page requests, each with the
\* caller's query, fields and page_size
C25_Witness ==
    /\ td_op = "walk"
    /\ Len(td_reqs) = 3
    /\ td_base.query = Some("q")
    /\ td_base.fields # None
    /\ td_reqs[3].query = Some("q")
    /\ td_reqs[3].start = 2 * td_base.page_size

(***************************************************************************)
(* Concurrent callers of ZenyaService.get_headers()                        *)
(***************************************************************************)

\* C26: ZenyaService does not serialise the check and the refresh of
\* get_headers(): a caller that finds the credential expired passes
\* check_token_expired() and goes on to acquire a token whatever another
\* caller is doing, also while that caller is between its own check and its
\* store; so two callers can both acquire a token for one expiry.
C26_CheckNotSerialised ==
    \A c \in Callers :
        (cc_pc[c] = "idle" /\ CheckTokenExpired(zn_token, zn_token_expiration, now)) =>
            ENABLED (CcCheck(c) /\ cc_pc'[c] = "post")

\* C26 witness: a token acquired at time 0 has expired; both callers passed
\* the check on that same expired credential before either stored a token,
\* and both have acquired and stored a new one
C26_Witness ==
    /\ cc_pc[1] = "done" /\ cc_pc[2] = "done"
    /\ \E k \in ZenyaTokens : cc_seen[1] = Some(<< Some(k), Some(TOKEN_LIFETIME) >>)
    /\ cc_seen[1] = cc_seen[2]
    /\ cc_resp[1].status = 200 /\ cc_resp[2].status = 200
    /\ now = TOKEN_LIFETIME

(***************************************************************************)
(* Further properties of ZenyaService                                      *)
(***************************************************************************)

\* the step is a get_headers() call whose token request failed
TokenRequestFails ==
    /\ zn_token_posts' = zn_token_posts + 1
    /\ zn_out'.kind = "raise"
    /\ Val(zn_out'.error).what = "token"

\* C27: a failed Zenya token acquisition leaves token and token_expiration
\* unchanged, so the credential is still reported expired and the next
\* get_headers() call requests a token again.
C27_FailedAcquisitionKeepsState ==
    [][ TokenRequestFails =>
          /\ zn_token' = zn_token
          /\ zn_token_expiration' = zn_token_expiration
          /\ CheckTokenExpired(zn_token', zn_token_expiration', now')
          /\ HeadersPosts'
      ]_vars

\* C27 witness: the token acquired at time 0 has expired, the request for a
\* new one has failed, and the service still holds the old token and stamp
C27_Witness ==
    /\ zn_pc = "raised"
    /\ Val(zn_out.error).what = "token"
    /\ zn_token_posts = 1
    /\ zn_token # None
    /\ zn_token_expiration = Some(TOKEN_LIFETIME)
    /\ zn_acquired_at = Some(0)
    /\ now = TOKEN_LIFETIME

\* the documents made of the records of pages with the given record counts,
\* page after page
RECURSIVE DocumentsOfPages(_)
DocumentsOfPages(counts) ==
    IF counts = << >> THEN << >>
    ELSE Documents(PageOf(ContentFeed, Head(counts))) \o DocumentsOfPages(Tail(counts))

\* C28: collect_documents with no cap requests the offsets 0, 50, 100, ... and
\* stops only on the first empty page: after P non-empty pages and one empty
\* page it has made exactly P+1 requests and returns the documents of all P
\* pages in order; for as long as every page is non-empty the walk has not
\* returned (it never does if the backend never serves an empty page).
C28_UncappedDocumentsWalk ==
    (zn_op = "docs" /\ zn_max_results = None) =>
        /\ \A i \in 1..Len(zn_reqs) : zn_reqs[i].offset = (i - 1) * PAGE_LIMIT
        /\ \A i \in 1..Len(zn_page_counts) :
             zn_page_counts[i] = 0 => (i = Len(zn_reqs) /\ zn_pc = "returned")
        /\ zn_pc = "returned" =>
             /\ Len(zn_page_counts) = Len(zn_reqs)
             /\ Last(zn_page_counts) = 0
             /\ zn_out.value = DocumentsOfPages(zn_page_counts)
        /\ (zn_out.kind = "none" /\ \A i \in 1..Len(zn_page_counts) : zn_page_counts[i] > 0) =>
             zn_pc = "walk"

\* C28 witness: two non-empty pages and an empty one: three requests at
\* offsets 0, 50 and 100, and the three documents of the two pages returned
C28_Witness ==
    /\ zn_op = "docs"
    /\ zn_max_results = None
    /\ zn_pc = "returned"
    /\ zn_page_counts = << 2, 1, 0 >>
    /\ Len(zn_reqs) = 3
    /\ zn_reqs[3].offset = 2 * PAGE_LIMIT
    /\ Len(zn_out.value) = 3

\* C29: every record search_zenya_documents returns has a null type,
\* doc_type, doc_type_id and last_modified_date_time whatever the backend
\* record contains; only source_item_id and title are taken from the backend
\* record.
C29_SearchRecordFields ==
    (zn_op = "search" /\ zn_tool.kind = "records") =>
        \A i \in 1..Len(zn_tool.records) :
            LET r == zn_tool.records[i] IN
            /\ r.type = JNull
            /\ r.doc_type = JNull
            /\ r.doc_type_id = JNull
            /\ r.last_modified_date_time = JNull
            /\ r.raw_item_details_for_debug = "Set logger to DEBUG"
            /\ \E k \in 1..Len(SearchFeed) :
                 /\ r.source_item_id = SearchFeed[k].source_item_id
                 /\ r.title = SearchFeed[k].title

\* C29 witness: the tool returns the record made of a backend record that
\* holds a type: its id and title are kept, its type is null
C29_Witness ==
    /\ zn_op = "search"
    /\ zn_tool.kind = "records"
    /\ Len(zn_tool.records) = 2
    /\ SearchFeed[1].type = JStr("document")
    /\ zn_tool.records[1].source_item_id = SearchFeed[1].source_item_id
    /\ zn_tool.records[1].title = SearchFeed[1].title
    /\ zn_tool.records[1].type = JNull

====
